---- MODULE Spec2Model ----
(***************************************************************************)
(* Time Series Insights Environment resource                               *)
(* (resource_time_series_insights_environment.go): the SKU string          *)
(* conversions and the create/update, read and delete handlers against a   *)
(* remote management API.                                                  *)
(*                                                                         *)
(* Strings that the code takes apart (SKU names) are sequences of          *)
(* one-character strings.  A Go pointer is a sequence of length 0 (nil) or *)
(* 1 (the value pointed to).                                               *)
(***************************************************************************)
EXTENDS Integers, Sequences, FiniteSets, TLC

VARIABLES
    conv,              \* the SKU conversions applied to one input
    importProtection,  \* features.ShouldResourcesBeImported()
    remote,            \* the remote API's environments, by (resourceGroup, name)
    lro,               \* the remote's long-running create-or-update operation
    d,                 \* the schema.ResourceData: the ID and the fields
    d0,                \* d as the host handed it to the running handler
    op,                \* the entry point the host invoked
    pc,                \* the handler's position
    reqs,              \* the remote calls of the running handler, in order
    result             \* what the handler returned

lifeVars == <<importProtection, remote, lro, d, d0, op, pc, reqs, result>>

vars == <<conv, importProtection, remote, lro, d, d0, op, pc, reqs, result>>

(***************************************************************************)
(* Bounds                                                                  *)
(***************************************************************************)
\* longest generated SKU string (besides the enumerated names)
MaxSkuLen == 4

\* capacities of the enumerated sku_name values: S1_1..S1_10, S2_1..S2_10
MaxCapacity == 10

(***************************************************************************)
(* Strings                                                                 *)
(***************************************************************************)
Str_S1 == <<"S", "1">>
Str_S2 == <<"S", "2">>

DigitChars == <<"0", "1", "2", "3", "4", "5", "6", "7", "8", "9">>

IsDigit(c) == \E i \in 1..10 : DigitChars[i] = c

DigitVal(c) == (CHOOSE i \in 1..10 : DigitChars[i] = c) - 1

\* fmt's %d of a non-negative integer
RECURSIVE FormatNat(_)
FormatNat(n) ==
    IF n < 10 THEN <<DigitChars[n + 1]>>
    ELSE FormatNat(n \div 10) \o <<DigitChars[(n % 10) + 1]>>

\* fmt's %d
FormatInt(n) == IF n < 0 THEN <<"-">> \o FormatNat(0 - n) ELSE FormatNat(n)

\* strings.Split(s, sep) for a one-character separator: one part more than
\* there are separators in s, so the empty string gives one empty part
RECURSIVE Split(_, _)
Split(s, sep) ==
    IF \A i \in 1..Len(s) : s[i] # sep THEN <<s>>
    ELSE LET k == CHOOSE i \in 1..Len(s) :
                      s[i] = sep /\ \A j \in 1..(i - 1) : s[j] # sep
         IN  <<SubSeq(s, 1, k - 1)>> \o Split(SubSeq(s, k + 1, Len(s)), sep)

RECURSIVE DigitsValue(_)
DigitsValue(s) ==
    IF s = <<>> THEN 0
    ELSE 10 * DigitsValue(SubSeq(s, 1, Len(s) - 1)) + DigitVal(s[Len(s)])

\* strconv.Atoi: an optional sign followed by one or more decimal digits.
\* (Its range error needs a string of 19 digits or more, beyond every string
\* of this model.)
Atoi(s) ==
    LET signed == Len(s) > 0 /\ s[1] \in {"+", "-"}
        digits == IF signed THEN Tail(s) ELSE s
    IN  IF digits = <<>> \/ \E i \in 1..Len(digits) : ~IsDigit(digits[i])
        THEN [ok |-> FALSE, val |-> 0]
        ELSE [ok |-> TRUE,
              val |-> IF signed /\ s[1] = "-" THEN 0 - DigitsValue(digits)
                      ELSE DigitsValue(digits)]

(***************************************************************************)
(* The SKU conversions                                                     *)
(***************************************************************************)
\* the outcome of expandEnvironmentSkuName: a *Sku and an error, or a panic
ExpandOk(name, capacity) ==
    [sku |-> <<[Name |-> name, Capacity |-> <<capacity>>]>>,
     err |-> "none", panic |-> FALSE]

ExpandErr(e) == [sku |-> <<>>, err |-> e, panic |-> FALSE]

ExpandPanic == [sku |-> <<>>, err |-> "none", panic |-> TRUE]

\* line 259 formats its error with parts[2], the third element of a slice
\* that line 243 has made sure holds exactly two: an index out of range
\* panics, a slice long enough gives the error
CapacityErrorOf(parts) ==
    IF Len(parts) >= 3 THEN ExpandErr("InvalidCapacity") ELSE ExpandPanic

\* the capacity converted before the tier is looked at
expandCapacityFirst(skuName) ==
    LET parts == Split(skuName, "_")
    IN  IF Len(parts) # 2 THEN ExpandErr("MalformedSku")
        ELSE LET capacity == Atoi(parts[2])
             IN  IF ~capacity.ok THEN CapacityErrorOf(parts)
                 ELSE IF parts[1] \notin {Str_S1, Str_S2}
                      THEN ExpandErr("UnknownTier")
                 ELSE ExpandOk(parts[1], capacity.val)

\* int32(capacity): every capacity of this model lies within int32
expandEnvironmentSkuName(skuName) ==
    LET parts == Split(skuName, "_")
    IN  IF Len(parts) # 2 THEN ExpandErr("MalformedSku")
        ELSE IF parts[1] \notin {Str_S1, Str_S2} THEN ExpandErr("UnknownTier")
        ELSE LET capacity == Atoi(parts[2])
             IN  IF ~capacity.ok THEN CapacityErrorOf(parts)
                 ELSE ExpandOk(parts[1], capacity.val)

\* "%s%d" for "%s_%d"
flattenWithoutSeparator(input) ==
    IF input = <<>> \/ input[1].Capacity = <<>> THEN <<>>
    ELSE input[1].Name \o FormatInt(input[1].Capacity[1])

\* input is a *Sku; input.Capacity a *int32
flattenEnvironmentSkuName(input) ==
    IF input = <<>> \/ input[1].Capacity = <<>> THEN <<>>
    ELSE input[1].Name \o <<"_">> \o FormatInt(input[1].Capacity[1])

(***************************************************************************)
(* The inputs of the conversions                                           *)
(***************************************************************************)
\* the sku_name values the schema lists
SkuNames ==
    {tier \o <<"_">> \o FormatInt(c) : tier \in {Str_S1, Str_S2}, c \in 1..MaxCapacity}

SkuAlphabet == {"S", "1", "3", "_", "x", "-"}

SeqsUpTo(S, n) == UNION {[1..k -> S] : k \in 0..n}

SkuStrings ==
    SkuNames \cup SeqsUpTo(SkuAlphabet, MaxSkuLen)
        \cup {<<"S", "1", "_", "1", "_", "1">>, <<"S", "3", "_", "1", "0">>,
              <<"S", "2", "_", "+", "7">>, <<"S", "2", "_", "0", "7">>}

SkuValues ==
    {<<>>} \cup
    {<<[Name |-> n, Capacity |-> c]>> :
        n \in {Str_S1, Str_S2, <<"P", "1">>},
        c \in {<<>>} \cup {<<k>> : k \in (0 - 1)..(MaxCapacity + 1)}}

(***************************************************************************)
(* The conversions applied to every input, once and back                   *)
(***************************************************************************)
NoExpand == ExpandErr("notrun")

ConvInit ==
    \/ \E s \in SkuStrings :
          conv = [from |-> "string", str |-> s, sku |-> <<>>,
                  exp |-> NoExpand, out |-> <<>>, steps |-> 0]
    \/ \E v \in SkuValues :
          conv = [from |-> "sku", str |-> <<>>, sku |-> v,
                  exp |-> NoExpand, out |-> <<>>, steps |-> 0]

\* ParseSku on the input string
ParseInput ==
    /\ conv.from = "string" /\ conv.steps = 0
    /\ conv' = [conv EXCEPT !.exp = expandEnvironmentSkuName(conv.str),
                            !.steps = 1]

\* FormatSku on the Sku that ParseSku returned
FormatParsed ==
    /\ conv.from = "string" /\ conv.steps = 1
    /\ conv.exp.err = "none" /\ ~conv.exp.panic
    /\ conv' = [conv EXCEPT !.out = flattenEnvironmentSkuName(conv.exp.sku),
                            !.steps = 2]

\* FormatSku on the input Sku
FormatInput ==
    /\ conv.from = "sku" /\ conv.steps = 0
    /\ conv' = [conv EXCEPT !.out = flattenEnvironmentSkuName(conv.sku),
                            !.steps = 1]

\* ParseSku on the string that FormatSku returned
ParseFormatted ==
    /\ conv.from = "sku" /\ conv.steps = 1
    /\ conv' = [conv EXCEPT !.exp = expandEnvironmentSkuName(conv.out),
                            !.steps = 2]

ConvNext ==
    /\ ParseInput \/ FormatParsed \/ FormatInput \/ ParseFormatted
    /\ UNCHANGED lifeVars

(***************************************************************************)
(* The remote API and the local record                                     *)
(***************************************************************************)
ResourceGroups == {"rg1"}

Names == {"env1", "env2"}

Keys == [rg : ResourceGroups, name : Names]

PurgeOldData == "PurgeOldData"

PauseIngress == "PauseIngress"

\* the sku_name values handed to the handlers: two the schema lists and two
\* that expandEnvironmentSkuName does not accept
ConfigSkuNames ==
    {<<"S", "1", "_", "5">>, <<"S", "2", "_", "1", "0">>,
     <<"S", "3", "_", "1">>, <<"S", "1", "_", "x">>}

Configs ==
    [name : Names, rg : ResourceGroups, sku_name : ConfigSkuNames,
     behavior : {PurgeOldData, PauseIngress}, retention : {"P7D"}]

\* the configurations with every sku_name the schema lists (lines 61-82)
ListedConfigs ==
    [name : {"env1"}, rg : ResourceGroups, sku_name : SkuNames,
     behavior : {PurgeOldData}, retention : {"P7D"}]

\* the identifier string, as its path segments; the empty string is <<>>
FormatID(rg, name) == <<"resourceGroups", rg, "environments", name>>

\* parse.TimeSeriesInsightsEnvironmentID
ParseID(id) ==
    IF /\ Len(id) = 4
       /\ id[1] = "resourceGroups" /\ id[3] = "environments"
       /\ id[2] # "" /\ id[4] # ""
    THEN [ok |-> TRUE, ResourceGroup |-> id[2], Name |-> id[4]]
    ELSE [ok |-> FALSE, ResourceGroup |-> "", Name |-> ""]

\* identifier strings handed to the importer: well-formed ones and two that
\* do not parse
RawIDs ==
    {FormatID(k.rg, k.name) : k \in Keys}
        \cup {<<"resourceGroups", "rg1">>, <<"environments", "env1">>}

NoData ==
    [id |-> <<>>, name |-> "", rg |-> "", sku_name |-> <<>>,
     behavior |-> "", retention |-> ""]

\* an environment as the remote API holds it; ID is a *string
Environment(key, kind, sku, behavior, retention) ==
    [ID |-> <<FormatID(key.rg, key.name)>>, Name |-> key.name, Kind |-> kind,
     Sku |-> sku, Behavior |-> behavior, Retention |-> retention]

\* environments that somebody else creates: a standard and a long-term one
ForeignEnvironments(key) ==
    {Environment(key, kind, <<[Name |-> Str_S1, Capacity |-> <<1>>]>>,
                 PurgeOldData, "P7D") : kind \in {"Standard", "LongTerm"}}

RemoteAt(rg, name) ==
    IF [rg |-> rg, name |-> name] \in Keys
    THEN remote[[rg |-> rg, name |-> name]] ELSE <<>>

\* client.Get: the response and the error.  notFound is
\* utils.ResponseWasNotFound of the response, Value the decoded body.
GetResponses(rg, name) ==
    LET cur == RemoteAt(rg, name)
    IN  {[kind |-> "failed", err |-> TRUE, notFound |-> FALSE, Value |-> <<>>],
         [kind |-> "nobody", err |-> FALSE, notFound |-> FALSE, Value |-> <<>>]}
        \cup
        IF cur = <<>>
        THEN {[kind |-> "notfound", err |-> TRUE, notFound |-> TRUE,
               Value |-> <<>>]}
        ELSE {[kind |-> "ok", err |-> FALSE, notFound |-> FALSE, Value |-> cur],
              [kind |-> "noid", err |-> FALSE, notFound |-> FALSE,
               Value |-> <<[cur[1] EXCEPT !.ID = <<>>]>>],
              [kind |-> "emptyid", err |-> FALSE, notFound |-> FALSE,
               Value |-> <<[cur[1] EXCEPT !.ID = << <<>> >>]>>]}

\* client.Delete: the response and the error
DeleteResponses(rg, name) ==
    {[kind |-> "failed", err |-> TRUE, notFound |-> FALSE]}
        \cup
        IF RemoteAt(rg, name) = <<>>
        THEN {[kind |-> "notfound", err |-> TRUE, notFound |-> TRUE]}
        ELSE {[kind |-> "ok", err |-> FALSE, notFound |-> FALSE]}

\* AsStandardEnvironmentResource
IsStandard(env) == env.Kind = "Standard"

NoLro == [state |-> "none", rg |-> "", name |-> "", parameters |-> <<>>]

NoResult == [outcome |-> "none", id |-> <<>>]

\* a remote call as the handler made it: the function that made it, the
\* call, the pair it addressed and where the pair came from, the response
Request(fn, call, rg, name, from, resp) ==
    [fn |-> fn, call |-> call, rg |-> rg, name |-> name, from |-> from,
     resp |-> resp]

LifeInit ==
    /\ importProtection \in BOOLEAN
    /\ remote = [k \in Keys |-> <<>>]
    /\ lro = NoLro
    /\ d = NoData
    /\ d0 = NoData
    /\ op = "none"
    /\ pc = "idle"
    /\ reqs = <<>>
    /\ result = NoResult

\* the handler returns
Return(outcome, id) ==
    /\ pc' = "done"
    /\ result' = [outcome |-> outcome, id |-> id]

Invoke(entry, data, at) ==
    /\ pc = "idle"
    /\ op' = entry
    /\ d' = data
    /\ d0' = data
    /\ pc' = at
    /\ reqs' = <<>>
    /\ result' = NoResult
    /\ UNCHANGED <<conv, importProtection, remote, lro>>

(***************************************************************************)
(* The host                                                                *)
(***************************************************************************)
\* Create: no ID yet; the fields are the configuration's
HostCreateOf(c) ==
    /\ d.id = <<>>
    /\ Invoke("create",
              [id |-> <<>>, name |-> c.name, rg |-> c.rg,
               sku_name |-> c.sku_name, behavior |-> c.behavior,
               retention |-> c.retention],
              "cu_expand")

HostCreate == \E c \in Configs : HostCreateOf(c)

\* Create with any sku_name the schema lists
HostCreateListed == \E c \in ListedConfigs : HostCreateOf(c)

\* tags.ForceNewSchema() (line 102): the tags are ForceNew
TagsForceNew == TRUE

\* a schema whose name is not ForceNew
SchemaNameNotForceNew ==
    [name |-> FALSE, sku_name |-> FALSE, behavior |-> FALSE,
     retention |-> TRUE, tags |-> TagsForceNew]

\* lines 43-103: the ForceNew flag of each field (lines 47, 58-83, 85-93,
\* 98, 102)
SchemaForceNew ==
    [name |-> TRUE, sku_name |-> FALSE, behavior |-> FALSE,
     retention |-> TRUE, tags |-> TagsForceNew]

\* the fields of the configuration that differ from the record
ChangedFields(old, new) ==
    {f \in DOMAIN SchemaForceNew \cap DOMAIN new : new[f] # old[f]}

\* what the host does with a changed configuration: a changed ForceNew
\* field has the resource replaced (Delete, then Create), any other change
\* goes to Update
PlanOf(changed) ==
    IF \E f \in changed : SchemaForceNew[f] THEN "replace"
    ELSE IF changed # {} THEN "update"
    ELSE "none"

\* Update: resource_group_name stays, and the plan is an update in place
HostUpdate ==
    \E c \in Configs :
        /\ d.id # <<>>
        /\ c.rg = d.rg
        /\ PlanOf(ChangedFields(d, c)) = "update"
        /\ Invoke("update",
                  [d EXCEPT !.sku_name = c.sku_name, !.behavior = c.behavior],
                  "cu_expand")

\* Read registered with the create/update handler
HostReadRunsCreateUpdate == d.id # <<>> /\ Invoke("read", d, "cu_expand")

HostRead == d.id # <<>> /\ Invoke("read", d, "read")

HostDelete == d.id # <<>> /\ Invoke("delete", d, "delete")

\* the host takes what the handler returned: it drops its record after a
\* Delete that returned no error, and whenever the handler left no ID.
\* (An operation that a timed-out wait left running has ended, one way or
\* the other, by the time the host goes on.)
HostTakesResult ==
    /\ pc = "done" /\ lro.state # "running"
    /\ d' = IF d.id = <<>> \/ (op = "delete" /\ result.outcome = "ok")
            THEN NoData ELSE d
    /\ d0' = NoData /\ op' = "none" /\ pc' = "idle"
    /\ reqs' = <<>> /\ result' = NoResult
    /\ UNCHANGED <<conv, importProtection, remote, lro>>

\* the host stops before it has saved what the handler returned: its record
\* stays as it was before the call
HostLosesResult ==
    /\ pc = "done" /\ lro.state # "running"
    /\ d' = IF d0.id = <<>> THEN NoData ELSE d0
    /\ d0' = NoData /\ op' = "none" /\ pc' = "idle"
    /\ reqs' = <<>> /\ result' = NoResult
    /\ UNCHANGED <<conv, importProtection, remote, lro>>

\* the host has a record whose ID does not parse (written by something
\* other than these handlers), and goes on to refresh or destroy it
HostLoadsRecord ==
    /\ pc = "idle" /\ d = NoData
    /\ \E raw \in RawIDs :
          /\ ~ParseID(raw).ok
          /\ d' = [id |-> raw, name |-> "env1", rg |-> "rg1",
                   sku_name |-> <<"S", "1", "_", "5">>,
                   behavior |-> PurgeOldData, retention |-> "P7D"]
    /\ UNCHANGED <<conv, importProtection, remote, lro, d0, op, pc, reqs, result>>

\* an importer that passes every ID through
ImportAcceptsAnything(raw) == TRUE

\* lines 31-34: the importer's check is the parse of the ID
ImportAccepts(raw) == ParseID(raw).ok

\* Importer (lines 31-34): the ID is validated, and only a valid one is
\* recorded and read
HostImport ==
    \E raw \in RawIDs :
        /\ d.id = <<>>
        /\ IF ImportAccepts(raw)
           THEN Invoke("import", [NoData EXCEPT !.id = raw], "read")
           ELSE /\ pc = "idle"
                /\ op' = "import"
                /\ d0' = d
                /\ reqs' = <<>>
                /\ Return("MalformedID", raw)
                /\ UNCHANGED <<conv, importProtection, remote, lro, d>>

(***************************************************************************)
(* Somebody else, and the remote's own progress                            *)
(***************************************************************************)
\* Somebody else creates or removes an environment at any moment, also
\* between two calls of a running handler.  (pc = "done" is the instant the
\* handler returns: what happens then happens as well right after it.)
OutsideCreate ==
    \E k \in Keys : \E env \in ForeignEnvironments(k) :
        /\ pc # "done"
        /\ remote[k] = <<>>
        /\ remote' = [remote EXCEPT ![k] = <<env>>]
        /\ UNCHANGED <<conv, importProtection, lro, d, d0, op, pc, reqs, result>>

OutsideDelete ==
    \E k \in Keys :
        /\ pc # "done"
        /\ remote[k] # <<>>
        /\ remote' = [remote EXCEPT ![k] = <<>>]
        /\ UNCHANGED <<conv, importProtection, lro, d, d0, op, pc, reqs, result>>

\* the long-running operation reaches its successful end: the environment
\* exists with the parameters of the request
LroSucceed ==
    /\ lro.state = "running"
    /\ remote' = [remote EXCEPT ![[rg |-> lro.rg, name |-> lro.name]] =
                    <<Environment([rg |-> lro.rg, name |-> lro.name], "Standard",
                                  lro.parameters.Sku, lro.parameters.Behavior,
                                  lro.parameters.Retention)>>]
    /\ lro' = IF pc = "cu_wait" THEN [lro EXCEPT !.state = "succeeded"] ELSE NoLro
    /\ UNCHANGED <<conv, importProtection, d, d0, op, pc, reqs, result>>

\* the long-running operation ends in failure
LroFail ==
    /\ lro.state = "running"
    /\ lro' = IF pc = "cu_wait" THEN [lro EXCEPT !.state = "failed"] ELSE NoLro
    /\ UNCHANGED <<conv, importProtection, remote, d, d0, op, pc, reqs, result>>

(***************************************************************************)
(* resourceArmTimeSeriesInsightsEnvironmentCreateUpdate                    *)
(***************************************************************************)
\* lines 112-119: the fields are read and sku_name is expanded before any
\* remote call; line 121 decides whether the presence check runs
CreateUpdate_Expand ==
    /\ pc = "cu_expand"
    /\ LET sku == expandEnvironmentSkuName(d.sku_name)
       IN  IF sku.panic THEN Return("panic", <<>>)
           ELSE IF sku.err # "none" THEN Return(sku.err, <<>>)
           ELSE /\ pc' = IF importProtection /\ op = "create"
                         THEN "cu_check" ELSE "cu_submit"
                /\ UNCHANGED result
    /\ UNCHANGED <<conv, importProtection, remote, lro, d, d0, op, reqs>>

\* the presence check without the test of the ID (lines 135-137)
CheckExistingWithoutConflict(existing) ==
    IF existing.err /\ ~existing.notFound THEN "CheckExistingError"
    ELSE IF existing.Value = <<>> THEN "none"
    ELSE IF ~IsStandard(existing.Value[1]) THEN "NotStandard"
    ELSE "none"

\* lines 123-138 on the response of the presence check: the error the
\* handler returns, or "none" when it goes on
CheckExistingOutcome(existing) ==
    IF existing.err /\ ~existing.notFound THEN "CheckExistingError"
    ELSE IF existing.Value = <<>> THEN "none"
    ELSE IF ~IsStandard(existing.Value[1]) THEN "NotStandard"
    ELSE IF existing.Value[1].ID # <<>> /\ existing.Value[1].ID[1] # <<>>
         THEN "AlreadyExists"
    ELSE "none"

\* lines 121-139
CreateUpdate_CheckExisting ==
    /\ pc = "cu_check"
    /\ \E existing \in GetResponses(d.rg, d.name) :
          /\ reqs' = Append(reqs, Request("CreateUpdate", "Get", d.rg, d.name,
                                          "fields", existing))
          /\ LET outcome == CheckExistingOutcome(existing)
             IN  IF outcome = "none"
                 THEN pc' = "cu_submit" /\ UNCHANGED result
                 ELSE Return(outcome,
                             IF outcome = "AlreadyExists"
                             THEN existing.Value[1].ID[1] ELSE <<>>)
    /\ UNCHANGED <<conv, importProtection, remote, lro, d, d0, op>>

\* the parameters built without the Sku
ParametersWithoutSku ==
    [Sku |-> <<>>, Behavior |-> d.behavior, Retention |-> d.retention]

\* lines 141-151: the StandardEnvironmentCreateOrUpdateParameters
CreateOrUpdateParameters ==
    [Sku |-> expandEnvironmentSkuName(d.sku_name).sku,
     Behavior |-> d.behavior, Retention |-> d.retention]

\* lines 153-156: the request is submitted; the remote accepts it and starts
\* the long-running operation, or refuses it
CreateUpdate_Submit ==
    /\ pc = "cu_submit"
    /\ \E accepted \in BOOLEAN :
          /\ reqs' = Append(reqs,
                 Request("CreateUpdate", "CreateOrUpdate", d.rg, d.name, "fields",
                         [kind |-> IF accepted THEN "ok" ELSE "failed",
                          err |-> ~accepted, notFound |-> FALSE,
                          Value |-> <<>>]))
          /\ IF accepted
             THEN /\ lro' = [state |-> "running", rg |-> d.rg, name |-> d.name,
                             parameters |-> CreateOrUpdateParameters]
                  /\ pc' = "cu_wait"
                  /\ UNCHANGED result
             ELSE /\ Return("OperationFailed", <<>>)
                  /\ UNCHANGED lro
    /\ UNCHANGED <<conv, importProtection, remote, d, d0, op>>

\* the error of the wait dropped
WaitIgnoringFailure(state) ==
    CASE state = "running" -> "Timeout"
      [] OTHER -> "none"

\* a wait that returns nil while the operation is still running
WaitNotBlocking(state) ==
    CASE state = "failed" -> "OperationFailed"
      [] OTHER -> "none"

\* future.WaitForCompletionRef on the state of the operation: it returns nil
\* once the operation has succeeded, the operation's error once it has
\* failed, and the context's error when the deadline passes first
WaitOutcome(state) ==
    CASE state = "succeeded" -> "none"
      [] state = "failed" -> "OperationFailed"
      [] OTHER -> "Timeout"

\* lines 158-160
CreateUpdate_Wait ==
    /\ pc = "cu_wait"
    /\ LET outcome == WaitOutcome(lro.state)
       IN  /\ reqs' = Append(reqs,
                  Request("CreateUpdate", "Wait", lro.rg, lro.name, "future",
                          [kind |-> lro.state, err |-> outcome # "none",
                           notFound |-> FALSE, Value |-> <<>>]))
           /\ IF outcome = "none"
              THEN pc' = "cu_readback" /\ UNCHANGED result
              ELSE Return(outcome, <<>>)
           /\ lro' = IF lro.state = "running" THEN lro ELSE NoLro
    /\ UNCHANGED <<conv, importProtection, remote, d, d0, op>>

\* lines 162-174 on the response of the read-back: resp.Value is an
\* interface, and line 167 calls a method on it without a nil check
ReadBackOutcome(resp) ==
    IF resp.err THEN "ReadBack"
    ELSE IF resp.Value = <<>> THEN "panic"
    ELSE IF ~IsStandard(resp.Value[1]) THEN "ReadBack"
    ELSE IF resp.Value[1].ID = <<>> THEN "ReadBack"
    ELSE "none"

\* lines 162-176: d.SetId(*resource.ID), then on to the Read of line 178
CreateUpdate_ReadBack ==
    /\ pc = "cu_readback"
    /\ \E resp \in GetResponses(d.rg, d.name) :
          /\ reqs' = Append(reqs, Request("CreateUpdate", "Get", d.rg, d.name,
                                          "fields", resp))
          /\ LET outcome == ReadBackOutcome(resp)
             IN  IF outcome = "none"
                 THEN /\ d' = [d EXCEPT !.id = resp.Value[1].ID[1]]
                      /\ pc' = "cu_read"
                      /\ UNCHANGED result
                 ELSE Return(outcome, <<>>) /\ UNCHANGED d
    /\ UNCHANGED <<conv, importProtection, remote, lro, d0, op>>

(***************************************************************************)
(* resourceArmTimeSeriesInsightsEnvironmentRead                            *)
(***************************************************************************)
\* the arguments of the Get in the wrong order
ReadTargetSwapped(id) == [rg |-> id.Name, name |-> id.ResourceGroup]

\* line 191: the pair the Get addresses
ReadTarget(id) == [rg |-> id.ResourceGroup, name |-> id.Name]

\* every failed Get taken for "not found"
ReadOutcomeAlwaysAbsent(resp) ==
    IF resp.err \/ resp.Value = <<>> THEN "absent"
    ELSE IF ~IsStandard(resp.Value[1]) THEN "ReadError"
    ELSE "none"

\* lines 192-204 on the response: "absent" is d.SetId("") and no error
ReadOutcome(resp) ==
    IF resp.err \/ resp.Value = <<>>
    THEN IF resp.notFound THEN "absent" ELSE "ReadError"
    ELSE IF ~IsStandard(resp.Value[1]) THEN "ReadError"
    ELSE "none"

\* the ID dropped together with the fields when the Read fails
ReadFailureKeepsNothing(outcome) == NoData

\* what a failed Read leaves of the record: the code returns the error and
\* touches nothing (lines 198, 203)
ReadFailureKeeps(outcome) == d

\* lines 206-218: the fields set from the environment
ReadFields(id, environment) ==
    [d EXCEPT !.name = environment.Name,
              !.rg = id.ResourceGroup,
              !.sku_name = flattenEnvironmentSkuName(environment.Sku),
              !.behavior = environment.Behavior,
              !.retention = environment.Retention]

\* lines 181-219, called by the host and by line 178
Read ==
    /\ pc \in {"read", "cu_read"}
    /\ LET id == ParseID(d.id)
       IN  IF ~id.ok
           THEN Return("MalformedID", d.id) /\ UNCHANGED <<d, reqs>>
           ELSE \E resp \in GetResponses(ReadTarget(id).rg, ReadTarget(id).name) :
                  /\ reqs' = Append(reqs, Request("Read", "Get", ReadTarget(id).rg,
                                                  ReadTarget(id).name, "id", resp))
                  /\ LET outcome == ReadOutcome(resp)
                     IN  CASE outcome = "absent" ->
                                /\ d' = [d EXCEPT !.id = <<>>]
                                /\ Return("ok", <<>>)
                           [] outcome = "none" ->
                                /\ d' = ReadFields(id, resp.Value[1])
                                /\ Return("ok", <<>>)
                           [] OTHER ->
                                /\ d' = ReadFailureKeeps(outcome)
                                /\ Return(outcome, <<>>)
    /\ UNCHANGED <<conv, importProtection, remote, lro, d0, op>>

(***************************************************************************)
(* resourceArmTimeSeriesInsightsEnvironmentDelete                          *)
(***************************************************************************)
\* line 231: the pair the Delete addresses
DeleteTarget(id) == [rg |-> id.ResourceGroup, name |-> id.Name]

\* "not found" not told from the other errors
DeleteOutcomeStrict(response) ==
    IF response.err THEN "DeleteError" ELSE "ok"

\* lines 232-238 on the response
DeleteOutcome(response) ==
    IF response.err /\ ~response.notFound THEN "DeleteError" ELSE "ok"

\* lines 221-239
Delete ==
    /\ pc = "delete"
    /\ LET id == ParseID(d.id)
       IN  IF ~id.ok
           THEN Return("MalformedID", d.id) /\ UNCHANGED <<remote, reqs>>
           ELSE \E response \in DeleteResponses(DeleteTarget(id).rg,
                                                DeleteTarget(id).name) :
                  /\ reqs' = Append(reqs,
                         Request("Delete", "Delete", DeleteTarget(id).rg,
                                 DeleteTarget(id).name, "id",
                                 [kind |-> response.kind, err |-> response.err,
                                  notFound |-> response.notFound,
                                  Value |-> <<>>]))
                  /\ remote' = IF response.kind = "ok"
                               THEN [remote EXCEPT ![DeleteTarget(id)] = <<>>]
                               ELSE remote
                  /\ Return(DeleteOutcome(response), <<>>)
    /\ UNCHANGED <<conv, importProtection, lro, d, d0, op>>

(***************************************************************************)
(* The specifications                                                      *)
(***************************************************************************)
ConvIdle ==
    [from |-> "none", str |-> <<>>, sku |-> <<>>, exp |-> NoExpand,
     out |-> <<>>, steps |-> 0]

Init == conv = ConvIdle /\ LifeInit

Next ==
    \/ HostCreate
    \/ HostUpdate
    \/ HostRead
    \/ HostDelete
    \/ HostTakesResult
    \/ HostLosesResult
    \/ HostImport
    \/ HostLoadsRecord
    \/ OutsideCreate
    \/ OutsideDelete
    \/ LroSucceed
    \/ LroFail
    \/ CreateUpdate_Expand
    \/ CreateUpdate_CheckExisting
    \/ CreateUpdate_Submit
    \/ CreateUpdate_Wait
    \/ CreateUpdate_ReadBack
    \/ Read
    \/ Delete

Spec == Init /\ [][Next]_vars

\* the conversions alone: nothing else runs
SkuInit ==
    /\ ConvInit
    /\ importProtection = TRUE
    /\ remote = [k \in Keys |-> <<>>]
    /\ lro = NoLro /\ d = NoData /\ d0 = NoData /\ op = "none"
    /\ pc = "idle" /\ reqs = <<>> /\ result = NoResult

SpecSku == SkuInit /\ [][ConvNext]_vars

\* end to end: an environment is created with any listed sku_name and read
\* again, and nobody else touches the remote
EndToEndNext ==
    \/ HostCreateListed
    \/ HostRead
    \/ HostTakesResult
    \/ LroSucceed
    \/ LroFail
    \/ CreateUpdate_Expand
    \/ CreateUpdate_CheckExisting
    \/ CreateUpdate_Submit
    \/ CreateUpdate_Wait
    \/ CreateUpdate_ReadBack
    \/ Read

SpecEndToEnd == Init /\ [][EndToEndNext]_vars

(***************************************************************************)
(* The SKU conversions: properties                                         *)
(***************************************************************************)
TierNames == {Str_S1, Str_S2}

\* C1: for every tier in {S1, S2} and capacity in 1..10, ParseSku of
\* FormatSku of the Sku gives the Sku back; and for each of the 20 listed
\* sku_name strings ParseSku succeeds and FormatSku of its result is the
\* string.
SkuRoundTrip ==
    /\ (/\ conv.from = "sku" /\ conv.steps = 2
        /\ conv.sku # <<>>
        /\ conv.sku[1].Name \in TierNames
        /\ conv.sku[1].Capacity \in {<<c>> : c \in 1..MaxCapacity})
       => conv.exp = [sku |-> conv.sku, err |-> "none", panic |-> FALSE]
    /\ (conv.from = "string" /\ conv.str \in SkuNames /\ conv.steps >= 1)
       => /\ conv.exp.err = "none" /\ ~conv.exp.panic
          /\ conv.exp.sku # <<>>
          /\ conv.exp.sku[1].Name \in TierNames
          /\ conv.exp.sku[1].Capacity \in {<<c>> : c \in 1..MaxCapacity}
    /\ (conv.from = "string" /\ conv.str \in SkuNames /\ conv.steps = 2)
       => conv.out = conv.str

\* "S2_10" has been parsed to Sku{S2, 10} and formatted back
SkuRoundTripWitness ==
    /\ conv.from = "string" /\ conv.steps = 2
    /\ conv.str = <<"S", "2", "_", "1", "0">>
    /\ conv.exp.sku = <<[Name |-> Str_S2, Capacity |-> <<10>>]>>
    /\ conv.out = conv.str

\* C2: a string of exactly two parts whose first is S1 or S2 and whose
\* second is no integer makes ParseSku return InvalidCapacityError as an
\* error value: no crash, no Sku.
InvalidCapacityIsAnError ==
    (/\ conv.from = "string" /\ conv.steps >= 1
     /\ Len(Split(conv.str, "_")) = 2
     /\ Split(conv.str, "_")[1] \in TierNames
     /\ ~Atoi(Split(conv.str, "_")[2]).ok)
    => conv.exp = ExpandErr("InvalidCapacity")

\* C3: ParseSku checks in a fixed order: a string that does not split into
\* exactly two parts fails with MalformedSkuError; a two-part string whose
\* first part is neither S1 nor S2 fails with UnknownTierError, whatever its
\* second part is; neither returns a Sku.
SkuErrorOrder ==
    (conv.from = "string" /\ conv.steps >= 1)
    => /\ Len(Split(conv.str, "_")) # 2
          => conv.exp = ExpandErr("MalformedSku")
       /\ (/\ Len(Split(conv.str, "_")) = 2
           /\ Split(conv.str, "_")[1] \notin TierNames)
          => conv.exp = ExpandErr("UnknownTier")

\* "S3_x": the tier is unknown and the capacity no integer
SkuErrorOrderWitness ==
    /\ conv.from = "string" /\ conv.steps = 1
    /\ conv.str = <<"S", "3", "_", "x">>
    /\ conv.exp = ExpandErr("UnknownTier")

(***************************************************************************)
(* The handlers: properties                                                *)
(***************************************************************************)
Last(s) == s[Len(s)]

\* the remote call failed, and not with "not found"
RemoteFailure(r) == r.resp.err /\ ~r.resp.notFound

\* the i-th call of the running handler is the read-back Get of line 162
IsReadBack(i) ==
    /\ reqs[i].fn = "CreateUpdate" /\ reqs[i].call = "Get"
    /\ \E j \in 1..(i - 1) : reqs[j].call = "CreateOrUpdate"

ReadAbsentIsNoError ==
    (pc = "done" /\ reqs # <<>> /\ Last(reqs).fn = "Read")
    => /\ Last(reqs).resp.notFound
          => result.outcome = "ok" /\ d.id = <<>>
       /\ RemoteFailure(Last(reqs))
          => /\ result.outcome = "ReadError"
             /\ d.id = FormatID(Last(reqs).rg, Last(reqs).name)

ReadAbsentIsNoErrorWitness ==
    /\ pc = "done" /\ op = "read"
    /\ ParseID(d0.id).ok
    /\ Len(reqs) = 1 /\ reqs[1].resp.notFound
    /\ result.outcome = "ok" /\ d.id = <<>>

\* C6: a Delete that the remote answers with "not found" returns success and
\* leaves the remote absent and the ID as it was, so the same Delete can be
\* repeated with the same result; a Delete that fails in any other way
\* returns DeleteError.
DeleteIsIdempotent ==
    (pc = "done" /\ op = "delete" /\ reqs # <<>>)
    => /\ Last(reqs).resp.notFound
          => /\ result.outcome = "ok"
             /\ RemoteAt(Last(reqs).rg, Last(reqs).name) = <<>>
             /\ d = d0
       /\ Last(reqs).resp.kind = "ok"
          => /\ result.outcome = "ok"
             /\ RemoteAt(Last(reqs).rg, Last(reqs).name) = <<>>
       /\ RemoteFailure(Last(reqs)) => result.outcome = "DeleteError"

DeleteIsIdempotentWitness ==
    /\ pc = "done" /\ op = "delete"
    /\ Len(reqs) = 1 /\ reqs[1].resp.notFound
    /\ result.outcome = "ok"
    /\ d.id = FormatID("rg1", "env1")
    /\ RemoteAt("rg1", "env1") = <<>>

\* the ID the record holds when the i-th call is made: the one the host
\* handed over, or the one the read-back has just recorded
PersistedIDAt(i) ==
    IF reqs[i].fn = "Read" /\ i > 1 THEN reqs[i - 1].resp.Value[1].ID[1]
    ELSE d0.id

\* C7 as stated: every request of a Read, an Update or a Delete takes its
\* (resourceGroup, name) from the persisted ID, none from the fields.
IdentityOnlyFromID ==
    op \in {"read", "update", "delete", "import"}
    => \A i \in 1..Len(reqs) :
          reqs[i].call # "Wait"
          => /\ reqs[i].from = "id"
             /\ reqs[i].rg = ParseID(PersistedIDAt(i)).ResourceGroup
             /\ reqs[i].name = ParseID(PersistedIDAt(i)).Name

\* C7 as the code has it: the Get of a Read and the Delete of a Delete
\* address the pair parsed from the persisted ID; the requests that
\* CreateUpdate makes itself (also on Update: the create-or-update request
\* and the read-back Get) address the pair of the resource_group_name and
\* name fields and do not parse the ID.
IdentityFromIDInReadAndDelete ==
    \A i \in 1..Len(reqs) :
        /\ reqs[i].fn \in {"Read", "Delete"}
           => /\ reqs[i].from = "id"
              /\ ParseID(PersistedIDAt(i)).ok
              /\ reqs[i].rg = ParseID(PersistedIDAt(i)).ResourceGroup
              /\ reqs[i].name = ParseID(PersistedIDAt(i)).Name
        /\ (reqs[i].fn = "CreateUpdate" /\ reqs[i].call # "Wait")
           => /\ reqs[i].from = "fields"
              /\ reqs[i].rg = d0.rg
              /\ reqs[i].name = d0.name

\* an Update has run to its end: create-or-update and read-back by the
\* fields, the final Read by the ID
IdentityWitness ==
    /\ pc = "done" /\ op = "update" /\ result.outcome = "ok"
    /\ Len(reqs) = 4
    /\ reqs[1].call = "CreateOrUpdate" /\ reqs[1].from = "fields"
    /\ reqs[4].fn = "Read" /\ reqs[4].from = "id"
    /\ d.id = d0.id

Errors ==
    {"MalformedSku", "UnknownTier", "InvalidCapacity", "CheckExistingError",
     "NotStandard", "AlreadyExists", "OperationFailed", "Timeout", "ReadBack",
     "ReadError", "DeleteError", "MalformedID"}

\* C8 as stated: a remote failure other than "not found" ends the operation
\* with an error and the local record as it was before the operation, the
\* final Read of CreateUpdate included; the record changes only on success.
FailureLeavesRecord ==
    pc = "done"
    => /\ (\E i \in 1..Len(reqs) : RemoteFailure(reqs[i]))
          => result.outcome \in Errors /\ d = d0
       /\ result.outcome # "ok" => d = d0

\* C8 as the code has it: a remote failure other than "not found" is the
\* last call of the operation, which returns an error; the local record is
\* as it was before the operation, except that a CreateUpdate whose final
\* Read fails has already recorded the ID of the read-back (line 176).
FailureLeavesRecordButReadBackID ==
    \A i \in 1..Len(reqs) :
        RemoteFailure(reqs[i])
        => /\ pc = "done" /\ i = Len(reqs)
           /\ result.outcome \in Errors
           /\ IF reqs[i].fn = "Read" /\ i > 1
              THEN d = [d0 EXCEPT !.id = reqs[i - 1].resp.Value[1].ID[1]]
              ELSE d = d0

\* a Create whose final Read failed: the error is returned and the ID of the
\* read-back is in the record
FailureAfterReadBackWitness ==
    /\ pc = "done" /\ op = "create"
    /\ result.outcome = "ReadError"
    /\ Len(reqs) = 5 /\ RemoteFailure(reqs[5])
    /\ d0.id = <<>> /\ d.id = FormatID(d0.rg, d0.name)

\* C9: the read-back Get and the recording of the ID come only after the wait
\* has seen the long-running operation succeeded; a create-or-update request
\* that is refused, or an operation that ends in failure, makes CreateUpdate
\* return OperationFailedError with no read-back and no ID recorded.
ReadBackOnlyAfterCompletion ==
    /\ \A i \in 1..Len(reqs) :
          /\ IsReadBack(i)
             => /\ reqs[i - 1].call = "Wait"
                /\ reqs[i - 1].resp.kind = "succeeded"
                /\ reqs[i - 2].call = "CreateOrUpdate"
                /\ ~reqs[i - 2].resp.err
          /\ (\/ reqs[i].call = "CreateOrUpdate" /\ reqs[i].resp.err
              \/ reqs[i].call = "Wait" /\ reqs[i].resp.kind = "failed")
             => /\ pc = "done" /\ i = Len(reqs)
                /\ result.outcome = "OperationFailed"
                /\ d = d0
    /\ (op \in {"create", "update"} /\ d # d0)
       => \E i \in 1..Len(reqs) :
             reqs[i].call = "Wait" /\ reqs[i].resp.kind = "succeeded"
    /\ pc \in {"cu_readback", "cu_read"}
       => \E i \in 1..Len(reqs) :
             reqs[i].call = "Wait" /\ reqs[i].resp.kind = "succeeded"

\* a Create whose operation ended in failure
OperationFailedWitness ==
    /\ pc = "done" /\ op = "create"
    /\ reqs # <<>>
    /\ Last(reqs).call = "Wait" /\ Last(reqs).resp.kind = "failed"
    /\ result.outcome = "OperationFailed"
    /\ d.id = <<>>

\* C10: a read-back that fails, that returns no resource body, or whose
\* resource has a nil or an empty ID makes CreateUpdate return ReadBackError
\* as an error value with no ID recorded.
ReadBackFailureIsAnError ==
    \A i \in 1..Len(reqs) :
        (/\ IsReadBack(i)
         /\ \/ reqs[i].resp.err
            \/ reqs[i].resp.Value = <<>>
            \/ reqs[i].resp.Value[1].ID = <<>>
            \/ reqs[i].resp.Value[1].ID[1] = <<>>)
        => /\ pc = "done" /\ i = Len(reqs)
           /\ result.outcome = "ReadBack"
           /\ d = d0

(***************************************************************************)
(* End to end                                                              *)
(***************************************************************************)
\* the Sku that a listed sku_name stands for: "S1_5" is Sku{S1, 5}
ListedSku(skuName) ==
    CHOOSE sku \in {<<[Name |-> tier, Capacity |-> <<c>>]>> :
                       tier \in TierNames, c \in 1..MaxCapacity} :
        skuName = sku[1].Name \o <<"_">> \o FormatInt(sku[1].Capacity[1])

\* C11: for every listed sku_name, a Create on an absent remote sends a
\* create-or-update request that carries the Sku the name stands for, waits
\* for the operation, reads back and returns with the ID recorded; a Read of
\* that ID, the remote left alone, gives the sku_name that was created.
EndToEndSkuName ==
    /\ (op = "create" /\ lro.state # "none")
       => /\ lro.parameters.Sku = ListedSku(d0.sku_name)
          /\ lro.rg = d0.rg /\ lro.name = d0.name
    /\ (op = "create" /\ pc = "done" /\ result.outcome = "ok")
       => /\ Len(reqs) >= 4
          /\ reqs[Len(reqs) - 3].call = "CreateOrUpdate"
          /\ reqs[Len(reqs) - 2].call = "Wait"
          /\ reqs[Len(reqs) - 2].resp.kind = "succeeded"
          /\ reqs[Len(reqs) - 1].call = "Get"
          /\ Last(reqs).fn = "Read"
          /\ d.id = FormatID(d0.rg, d0.name)
          /\ d.sku_name = d0.sku_name
          /\ RemoteAt(d0.rg, d0.name)[1].Sku = ListedSku(d0.sku_name)
    /\ (op = "read" /\ pc = "done" /\ result.outcome = "ok" /\ d.id # <<>>)
       => /\ d.sku_name = d0.sku_name
          /\ d.sku_name \in SkuNames
          /\ RemoteAt(d.rg, d.name)[1].Sku = ListedSku(d.sku_name)

\* "S1_5" has been created and is read again
EndToEndWitness ==
    /\ op = "read" /\ pc = "done" /\ result.outcome = "ok"
    /\ d.id = FormatID("rg1", "env1")
    /\ d.sku_name = <<"S", "1", "_", "5">>
    /\ RemoteAt("rg1", "env1")[1].Sku = <<[Name |-> Str_S1, Capacity |-> <<5>>]>>

(***************************************************************************)
(* The name validator                                                      *)
(***************************************************************************)
\* the longest name tried
MaxNameLen == 92

\* line 50: the length the validator's message promises
NameMaxLen == 90

Letters ==
    {"a", "b", "c", "d", "e", "f", "g", "h", "i", "j", "k", "l", "m",
     "n", "o", "p", "q", "r", "s", "t", "u", "v", "w", "x", "y", "z",
     "A", "B", "C", "D", "E", "F", "G", "H", "I", "J", "K", "L", "M",
     "N", "O", "P", "Q", "R", "S", "T", "U", "V", "W", "X", "Y", "Z"}

\* \w of the regular expression
WordChars ==
    Letters \cup {DigitChars[i] : i \in 1..Len(DigitChars)} \cup {"_"}

\* line 49: the class [-\w\._\(\)]
NameChars == {"-", ".", "_", "(", ")"} \cup WordChars

\* lines 48-51: validation.StringMatch with ^[-\w\._\(\)]+$ : the whole
\* string is one or more characters of the class
NameMatches(name) ==
    /\ Len(name) >= 1
    /\ \A i \in 1..Len(name) : name[i] \in NameChars

\* the characters the names tried are made of
NameAlphabet == {"a", "Z", "7", "_", "-", ".", "(", ")", " ", "/", "\n"}

\* names of every length: one character repeated, and the same with another
\* character at the end or at the start
NameInputs ==
    {[i \in 1..n |-> c] : n \in 0..MaxNameLen, c \in NameAlphabet}
        \cup {[i \in 1..n |-> IF i = n THEN c ELSE "a"] :
                 n \in 1..MaxNameLen, c \in NameAlphabet}
        \cup {[i \in 1..n |-> IF i = 1 THEN c ELSE "a"] :
                 n \in 1..MaxNameLen, c \in NameAlphabet}

NameInit ==
    /\ \E s \in NameInputs :
          conv = [from |-> "name", str |-> s, accepted |-> FALSE, steps |-> 0]
    /\ LifeInit

\* the ValidateFunc of "name" applied to the configured value
ValidateName ==
    /\ conv.from = "name" /\ conv.steps = 0
    /\ conv' = [conv EXCEPT !.accepted = NameMatches(conv.str), !.steps = 1]
    /\ UNCHANGED lifeVars

SpecName == NameInit /\ [][ValidateName]_vars

\* C12: the validator accepts a name exactly when it is 1 to 90 characters
\* of the class [-\w._()] : the empty name, a name of 91 or more
\* characters and a name with any other character are rejected.
NameAcceptedIffShortAndClean ==
    (conv.from = "name" /\ conv.steps = 1)
        => (conv.accepted
              <=> /\ Len(conv.str) >= 1
                  /\ Len(conv.str) <= NameMaxLen
                  /\ \A i \in 1..Len(conv.str) : conv.str[i] \in NameChars)

(***************************************************************************)
(* Who changes the remote                                                  *)
(***************************************************************************)
\* C13: Read and the import check send nothing but Get requests and leave
\* the remote as it is; Delete sends no create-or-update request and creates
\* or changes no remote resource; a provisioning operation is started only
\* by the create/update handler.
OnlyCreateUpdateChangesRemote ==
    /\ [](\A i \in 1..Len(reqs) :
             /\ reqs[i].fn = "Read" => reqs[i].call = "Get"
             /\ reqs[i].fn = "Delete" => reqs[i].call = "Delete"
             /\ op \in {"read", "import"} => reqs[i].call = "Get"
             /\ op = "delete" => reqs[i].call = "Delete")
    /\ [][/\ (pc \in {"read", "cu_read"} /\ pc' = "done")
             => (remote' = remote /\ lro' = lro)
          /\ (pc = "idle" /\ op' = "import")
             => (remote' = remote /\ lro' = lro)
          /\ (pc = "delete" /\ pc' = "done")
             => /\ lro' = lro
                /\ \A k \in Keys : remote'[k] \in {remote[k], <<>>}
          /\ (lro.state # "running" /\ lro'.state = "running")
             => (pc = "cu_submit" /\ op \in {"create", "update"})]_vars

\* an import has read an existing environment, which is still there
ImportReadsOnlyWitness ==
    /\ op = "import" /\ pc = "done" /\ result.outcome = "ok"
    /\ Len(reqs) = 1 /\ reqs[1].call = "Get"
    /\ d.id = FormatID("rg1", "env2")
    /\ RemoteAt("rg1", "env2") # <<>>

(***************************************************************************)
(* Changes that force a replacement                                        *)
(***************************************************************************)
\* the records and configurations whose differences are planned
PlanConfigs ==
    [name : Names, sku_name : {<<"S", "1", "_", "5">>, <<"S", "2", "_", "1", "0">>},
     behavior : {PurgeOldData, PauseIngress}, retention : {"P7D", "P30D"},
     tags : {"none", "env=prod"}]

PlanInit ==
    /\ \E old \in PlanConfigs, new \in PlanConfigs :
          conv = [from |-> "plan", old |-> old, new |-> new,
                  plan |-> "", steps |-> 0]
    /\ LifeInit

\* the host plans the change from the record to the configuration
PlanChange ==
    /\ conv.from = "plan" /\ conv.steps = 0
    /\ conv' = [conv EXCEPT !.plan = PlanOf(ChangedFields(conv.old, conv.new)),
                            !.steps = 1]
    /\ UNCHANGED lifeVars

SpecPlan == PlanInit /\ [][PlanChange]_vars

\* C14: a change of name, data_retention_time or tags is planned as a
\* replacement and never as an update in place; a change of sku_name and/or
\* storage_limited_exceeded_behavior alone is planned as an update in place.
ImmutableFieldsForceReplacement ==
    (conv.from = "plan" /\ conv.steps = 1)
        => /\ (\/ conv.new.name # conv.old.name
               \/ conv.new.retention # conv.old.retention
               \/ conv.new.tags # conv.old.tags)
              => conv.plan = "replace"
           /\ (/\ conv.new.name = conv.old.name
               /\ conv.new.retention = conv.old.retention
               /\ conv.new.tags = conv.old.tags
               /\ (\/ conv.new.sku_name # conv.old.sku_name
                   \/ conv.new.behavior # conv.old.behavior))
              => conv.plan = "update"

\* the name has changed together with the sku_name: a replacement
NameChangeWitness ==
    /\ conv.from = "plan" /\ conv.steps = 1
    /\ conv.new.name # conv.old.name
    /\ conv.new.sku_name # conv.old.sku_name
    /\ conv.new.retention = conv.old.retention
    /\ conv.new.tags = conv.old.tags
    /\ conv.plan = "replace"

(***************************************************************************)
(* The deadline passing during the wait                                    *)
(***************************************************************************)
\* C15: when the deadline passes while the create/update handler waits for
\* the operation, the handler returns the timeout error and sends no further
\* request: the wait is its last call, the operation and the remote are left
\* as they are and the record is as the handler was given it.
TimeoutStopsWithoutRollback ==
    /\ [](\A i \in 1..Len(reqs) :
             (reqs[i].call = "Wait" /\ reqs[i].resp.kind = "running")
                => /\ i = Len(reqs)
                   /\ pc = "done"
                   /\ result.outcome = "Timeout"
                   /\ d = d0)
    /\ [][(pc = "cu_wait" /\ lro.state = "running" /\ pc' # pc)
            => /\ pc' = "done"
               /\ result'.outcome = "Timeout"
               /\ remote' = remote /\ lro' = lro /\ d' = d
               /\ Len(reqs') = Len(reqs) + 1
               /\ Last(reqs').call = "Wait"]_vars

\* the handler has returned the timeout error and the operation still runs
TimeoutWitness ==
    /\ op = "create" /\ pc = "done" /\ result.outcome = "Timeout"
    /\ lro.state = "running"
    /\ Len(reqs) = 3 /\ reqs[2].call = "CreateOrUpdate" /\ reqs[3].call = "Wait"
    /\ RemoteAt(d.rg, d.name) = <<>>

(***************************************************************************)
(* Identifiers that do not parse                                           *)
(***************************************************************************)
\* C16: an identifier that does not parse is rejected before any remote
\* call: the importer refuses it, and a Read or Delete of a record whose ID
\* does not parse returns the parse error with no Get and no Delete sent and
\* with the record and the remote unchanged.
MalformedIDRejectedBeforeAnyCall ==
    /\ [](/\ (op \in {"read", "delete"} /\ ~ParseID(d0.id).ok)
             => /\ reqs = <<>> /\ d = d0 /\ pc \in {"read", "delete", "done"}
                /\ pc = "done" => result.outcome = "MalformedID"
          /\ (op = "import" /\ pc # "done") => ParseID(d.id).ok
          /\ (op = "import" /\ pc = "done" /\ result.outcome # "MalformedID")
             => ParseID(d0.id).ok
          /\ (op = "import" /\ result.outcome = "MalformedID")
             => (reqs = <<>> /\ d = d0 /\ d.id = <<>>)
          /\ result.outcome = "MalformedID"
             => \A i \in 1..Len(reqs) : reqs[i].fn \notin {"Read", "Delete"})
    /\ [][(result'.outcome = "MalformedID" /\ result.outcome # "MalformedID")
            => (remote' = remote /\ lro' = lro /\ d' = d /\ reqs' = reqs)]_vars

\* a Delete of a record whose ID does not parse has returned the parse
\* error, and the environment is still there
MalformedDeleteWitness ==
    /\ op = "delete" /\ pc = "done" /\ result.outcome = "MalformedID"
    /\ d.id # <<>> /\ ~ParseID(d.id).ok
    /\ reqs = <<>>
    /\ RemoteAt("rg1", "env1") # <<>>

(***************************************************************************)
(* What a successful create/update leaves in the record                    *)
(***************************************************************************)
\* C18: whenever the create/update handler returns without an error, the
\* record holds a non-empty ID, the ID of the remote environment at
\* (resource_group_name, name), also when somebody removes the environment
\* between the read-back and the final Read.
SuccessHoldsTheRemoteID ==
    (op \in {"create", "update"} /\ pc = "done" /\ result.outcome = "ok")
        => /\ d.id # <<>>
           /\ d.id = FormatID(d0.rg, d0.name)

(***************************************************************************)
(* The life cycle                                                          *)
(***************************************************************************)
\* what the host persists of the record the handler returned: nothing when
\* the handler left no ID or a Delete returned without an error
PersistedState ==
    IF d.id = <<>> \/ (op = "delete" /\ result.outcome = "ok")
    THEN "Absent" ELSE "Present"

\* the state of the managed resource: in flight while create, update or
\* delete run, otherwise what the record says
LifecycleState ==
    IF pc \notin {"idle", "done"} /\ op = "create" THEN "Creating"
    ELSE IF pc \notin {"idle", "done"} /\ op = "update" THEN "Updating"
    ELSE IF pc \notin {"idle", "done"} /\ op = "delete" THEN "Deleting"
    ELSE PersistedState

\* C17: over the create, update and delete operations the host invokes, the
\* life cycle makes only the steps Absent -> Creating -> Present,
\* Present -> Updating -> Present and Present -> Deleting -> Absent (an
\* operation that returns an error may leave the state it started from);
\* Creating, Updating and Deleting last only while the handler runs, and the
\* record a Create leaves holds no ID or the ID of the created environment.
LifecycleTransitions ==
    /\ [][(pc # "done" /\ pc' # pc /\ op' \in {"create", "update", "delete"})
            => LET from == LifecycleState
                   to == LifecycleState'
                   failed == result'.outcome # "ok"
               IN  \/ from = to
                   \/ from = "Absent" /\ to = "Creating"
                   \/ from = "Creating" /\ to = "Present"
                   \/ from = "Creating" /\ to = "Absent" /\ failed
                   \/ from = "Present" /\ to = "Updating"
                   \/ from = "Updating" /\ to = "Present"
                   \/ from = "Present" /\ to = "Deleting"
                   \/ from = "Deleting" /\ to = "Absent"
                   \/ from = "Deleting" /\ to = "Present" /\ failed]_vars
    /\ [](/\ pc \in {"idle", "done"} => LifecycleState \in {"Absent", "Present"}
          /\ (op = "create" /\ pc = "done" /\ d.id # <<>>)
             => d.id = FormatID(d0.rg, d0.name))

(***************************************************************************)
(* A sku_name that does not expand                                         *)
(***************************************************************************)
\* C19: a create/update with a sku_name that the expansion does not accept
\* fails with the SKU error before any remote request is sent: no presence
\* check, no create-or-update and no read-back, with the remote and the
\* record unchanged, whether or not imports are required and whether or not
\* the environment exists.
InvalidSkuFailsBeforeAnyRequest ==
    (/\ op \in {"create", "update"}
     /\ expandEnvironmentSkuName(d0.sku_name).sku = <<>>)
        => /\ reqs = <<>>
           /\ lro.state # "running"
           /\ d = d0
           /\ pc \in {"cu_expand", "done"}
           /\ pc = "done"
              => result.outcome \in {"MalformedSku", "UnknownTier",
                                     "InvalidCapacity"}

====
